---- MODULE Spec2Model ----
(***************************************************************************)
(* Model of schraper: the rate-limited retrying Client (job/util.rs), the  *)
(* job scheduler Jobs (job/mod.rs) and the movies fetch run                *)
(* (job/movies.rs).                                                        *)
(***************************************************************************)
EXTENDS Integers, Sequences, FiniteSets, TLC

\* ------------------------------------------------------------------ bounds
\* Number of concurrent callers sharing one Client (and its clones).
NumCallers == 2
\* Calls issued at once through a rate-limited Client.
NumConcurrent == 3
\* Largest max_retries tried with concurrent callers.
MaxRetries == 1
\* The ghost count of HTTP attempts of one call stops counting here (a
\* release build with max_retries = 255 never leaves the loop).
MaxAttempts == 258
\* Jobs registered with the scheduler.
MaxJobs == 2
\* Largest run_interval, in clock ticks.
MaxInterval == 2
\* The clock (Instant::now()) is followed up to this tick.
MaxTime == 3
\* Job runs started over the life of the process.
MaxRuns == 3
\* Largest rate-limiter quota (requests per second) tried.
MaxQuota == 2
\* The limiter's clock is followed up to this many cell intervals (one cell
\* interval is 1/quota second).
MaxClock == 2
\* Runs followed under a driver that polls again after an error.
MaxRepolls == 2
\* Cinemas and shows the upstream API can list.
MaxCinemas == 1
MaxShows == 2
\* Show slugs one cinema's show list can hold.
MaxCinemaShows == 1
\* Showtimes one showtimes response can hold.
MaxShowtimes == 1
\* Distinct external rating ids (vanities) the rating search can return.
MaxRatingIds == 2
\* Hits in one results container of a rating search response.
MaxHits == 2
\* Longest title, in characters, and largest release year given to the matcher.
MaxTitleLen == 1
MaxYear == 1

\* ------------------------------------------------------- program constants
\* max_retries and the retries counter are u8.
U8Max == 255

\* Option::None of `last_ran: Option<Instant>` (instants are >= 0)
None == -1
\* Option::None of `err: Option<reqwest::Error>`
NoErr == "None"
\* Option::None of `release_year: Option<i32>` (years are >= 0 here)
NoYear == -1

VARIABLES
    \* ---- Client (job/util.rs)
    max_retries,      \* Client.max_retries
    limiter,          \* TRUE iff Client.limiter is Some(..)
    bucket,           \* state of the limiter: quota n, free cells, clock
    overflow_checks,  \* build profile: TRUE = overflow panics, FALSE = wraps
    sem,              \* available permits of Client.sem
    sem_waiters,      \* FIFO queue of tasks waiting in sem.acquire()
    callers,          \* the tasks that call get/post on the client
    pc,               \* position of each task inside get_or_post
    retries,          \* local `retries` of each call
    err,              \* local `err` of each call (last observed error)
    attempts,         \* ghost: HTTP requests sent by each call
    result,           \* what the call returned
    \* ---- Jobs (job/mod.rs)
    joblist,          \* Jobs.joblist: <<[last_ran, run_interval]>>
    now,              \* Instant::now()
    poll_pc,          \* position of the driver inside Jobs::poll
    poll_idx,         \* index of `job` in the for loop of poll
    poll_result,      \* what the last poll() returned
    hist,             \* ghost, per job: runs in this pass, polled, failed start
    due0,             \* ghost: jobs that had run before and were due at poll start
    \* ---- MovieFetcher::run (job/movies.rs)
    run,              \* the run in progress: position, fetched lists, join index
    run_id,           \* ghost: number of runs started
    tasks,            \* tokio tasks spawned and not yet joined or finished
    sink_log,         \* sink spy: tables handed to the sink by the latest run
    \* ---- best_rt_hit (job/matching.rs)
    matcher           \* one call: its arguments, its position, its result

clientVars == <<max_retries, limiter, bucket, overflow_checks, sem,
                sem_waiters, callers, pc, retries, err, attempts, result>>

schedVars == <<joblist, now, poll_pc, poll_idx, poll_result, hist, due0>>
runVars == <<run, run_id, tasks, sink_log>>

vars == <<clientVars, schedVars, runVars, matcher>>

\* The client's configuration and everything outside the client.
clientConf == <<max_retries, limiter, overflow_checks, callers>>
notClient == <<schedVars, runVars, matcher>>

Callers == 1..NumConcurrent

\* reqwest errors a single attempt can observe.
SendErrors == {"transport", "status"}
BodyErrors == {"body"}

\* ------------------------------------------------------------------ Client

\* Client::new().with_max_retries(r) [.with_limit(n)]: one permit.
ClientNew(r, lim) ==
    /\ max_retries = r
    /\ limiter = lim
    /\ sem = 1
    /\ sem_waiters = <<>>

\* RateLimiter::direct(Quota::per_second(n)): a bucket of n cells, all free,
\* one cell replenished every 1/n second. The clock counts cell intervals;
\* the steps between two ticks take no time.
with_limit(n) == [n |-> n, cells |-> n, time |-> 0]

\* A client without limiter has no bucket.
NoBucket == [n |-> 0, cells |-> 0, time |-> 0]

\* One cell interval (1/n second) passes: a used cell is replenished.
ClientTick ==
    /\ limiter
    /\ bucket.time < MaxClock
    /\ bucket' = [bucket EXCEPT
                    !.time = @ + 1,
                    !.cells = IF @ < bucket.n THEN @ + 1 ELSE @]
    /\ UNCHANGED <<max_retries, limiter, overflow_checks, sem, sem_waiters,
                   callers, pc, retries, err, attempts, result, notClient>>

\* drop(permit): tokio hands the permit to the first queued waiter, else
\* returns it to the semaphore.
Release ==
    IF sem_waiters = <<>>
    THEN /\ sem' = 1
         /\ sem_waiters' = sem_waiters
    ELSE /\ sem' = sem
         /\ sem_waiters' = Tail(sem_waiters)

\* The task that owns the permit after a release by `t` moving to `next`.
AfterRelease(t, next) ==
    IF sem_waiters = <<>>
    THEN [pc EXCEPT ![t] = next]
    ELSE [pc EXCEPT ![t] = next, ![Head(sem_waiters)] = "holding"]

\* get / post -> get_or_post: locals and url.into_url()?
Call(t) ==
    /\ t \in callers
    /\ pc[t] = "idle"
    /\ \E url_ok \in BOOLEAN :
         IF url_ok
         THEN /\ pc' = [pc EXCEPT ![t] = "loop"]
              /\ UNCHANGED <<err, result>>
         ELSE /\ pc' = [pc EXCEPT ![t] = "done"]
              /\ err' = [err EXCEPT ![t] = "url"]
              /\ result' = [result EXCEPT ![t] = "err"]
    /\ retries' = [retries EXCEPT ![t] = 0]
    /\ UNCHANGED <<clientConf, bucket, notClient, sem, sem_waiters, attempts>>

\* sem.acquire() succeeds at once only if a permit is free and nobody queues.
PermitFreeAlways == TRUE
PermitFree == sem > 0 /\ sem_waiters = <<>>

\* `while retries <= self.max_retries`
LoopCond(t) == retries[t] <= max_retries

\* Top of the loop: either start sem.acquire() or leave the loop with
\* Err(err.unwrap()).
LoopTop(t) ==
    /\ pc[t] = "loop"
    /\ IF LoopCond(t)
       THEN /\ IF PermitFree
               THEN /\ sem' = sem - 1
                    /\ sem_waiters' = sem_waiters
                    /\ pc' = [pc EXCEPT ![t] = "holding"]
               ELSE /\ sem' = sem
                    /\ sem_waiters' = Append(sem_waiters, t)
                    /\ pc' = [pc EXCEPT ![t] = "acquire"]
            /\ UNCHANGED result
       ELSE /\ pc' = [pc EXCEPT ![t] = "done"]
            /\ result' = [result EXCEPT ![t] =
                            IF err[t] = NoErr THEN "panic" ELSE "err"]
            /\ UNCHANGED <<sem, sem_waiters>>
    /\ UNCHANGED <<clientConf, bucket, notClient, retries, err, attempts>>

\* `if retries > 0 { sleep(5 min) }` with the permit held
IsRetry(t) == retries[t] > 0

AfterPermitNoLimiter == "ready"

\* `match &self.limiter`: with a limiter the task awaits until_ready(),
\* without one it goes on to request.send(), permit already dropped.
AfterPermit == IF limiter THEN "limiter" ELSE "ready"

\* request.send() puts one more HTTP request on the wire (ghost count).
Sent(t) == [attempts EXCEPT ![t] = IF @ < MaxAttempts THEN @ + 1 ELSE @]

\* drop(permit) by task t; the limiter wait or the send comes after it.
DropPermit(t) ==
    /\ Release
    /\ pc' = AfterRelease(t, AfterPermit)
    /\ attempts' = attempts

\* After the permit is acquired: a retry starts the cooldown sleep holding
\* the permit, a first attempt drops the permit at once.
PermitPhase(t) ==
    /\ pc[t] = "holding"
    /\ IF IsRetry(t)
       THEN /\ pc' = [pc EXCEPT ![t] = "sleeping"]
            /\ UNCHANGED <<sem, sem_waiters, attempts>>
       ELSE DropPermit(t)
    /\ UNCHANGED <<clientConf, bucket, notClient, retries, err, result>>

\* The cooldown sleep ends; drop(permit).
SleepDone(t) ==
    /\ pc[t] = "sleeping"
    /\ DropPermit(t)
    /\ UNCHANGED <<clientConf, bucket, notClient, retries, err, result>>

CellFreeAlways == TRUE

\* until_ready() returns as soon as the bucket has a free cell
CellFree == bucket.cells > 0

\* limiter.until_ready() returns, taking one cell; request.send() puts the
\* HTTP request on the wire.
UntilReady(t) ==
    /\ pc[t] = "limiter"
    /\ CellFree
    /\ bucket' = [bucket EXCEPT !.cells = @ - 1]
    /\ pc' = [pc EXCEPT ![t] = "sending"]
    /\ attempts' = Sent(t)
    /\ UNCHANGED <<clientConf, notClient, sem, sem_waiters, retries, err, result>>

\* Without a limiter: request.send() puts the HTTP request on the wire, some
\* time after the permit was dropped.
SendRequest(t) ==
    /\ pc[t] = "ready"
    /\ pc' = [pc EXCEPT ![t] = "sending"]
    /\ attempts' = Sent(t)
    /\ UNCHANGED <<clientConf, bucket, notClient, sem, sem_waiters, retries,
                   err, result>>

\* `err = Some(e); retries += 1; continue` on a u8 counter: at 255 a build
\* with overflow checks panics, a build without wraps to 0.
Retry(t, e) ==
    /\ err' = [err EXCEPT ![t] = e]
    /\ IF retries[t] < U8Max
       THEN /\ retries' = [retries EXCEPT ![t] = @ + 1]
            /\ pc' = [pc EXCEPT ![t] = "loop"]
            /\ UNCHANGED result
       ELSE IF overflow_checks
            THEN /\ pc' = [pc EXCEPT ![t] = "done"]
                 /\ result' = [result EXCEPT ![t] = "panic"]
                 /\ UNCHANGED retries
            ELSE /\ retries' = [retries EXCEPT ![t] = 0]
                 /\ pc' = [pc EXCEPT ![t] = "loop"]
                 /\ UNCHANGED result

\* request.send().await and response.error_for_status()
Send(t) ==
    /\ pc[t] = "sending"
    /\ \E outcome \in {"ok"} \cup SendErrors :
         IF outcome = "ok"
         THEN /\ pc' = [pc EXCEPT ![t] = "body"]
              /\ UNCHANGED <<retries, err, result>>
         ELSE Retry(t, outcome)
    /\ UNCHANGED <<clientConf, bucket, notClient, sem, sem_waiters, attempts>>

\* response.bytes().await
Bytes(t) ==
    /\ pc[t] = "body"
    /\ \E outcome \in {"ok"} \cup BodyErrors :
         IF outcome = "ok"
         THEN /\ pc' = [pc EXCEPT ![t] = "done"]
              /\ result' = [result EXCEPT ![t] = "ok"]
              /\ UNCHANGED <<retries, err>>
         ELSE Retry(t, outcome)
    /\ UNCHANGED <<clientConf, bucket, notClient, sem, sem_waiters, attempts>>

\* --------------------------------------------------------------- Jobs
notSched == <<clientVars, matcher>>

\* Job::new
Job_new(interval) == [last_ran |-> None, run_interval |-> interval]

\* Job::should_run at clock reading t
should_run(job, t) ==
    IF job.last_ran # None
    THEN (t - job.last_ran) >= job.run_interval
    ELSE TRUE

Job_run_stamps_always(job, ok, t) == [job EXCEPT !.last_ran = t]

\* Job::run after the runner returned: `run().await?; last_ran = Some(now)`
Job_run(job, ok, t) ==
    IF ok THEN [job EXCEPT !.last_ran = t] ELSE job

\* Ghost history of a job: runs started in the current pass, whether a pass
\* has ended since registration, and the start time of its latest run when
\* that run has not succeeded (None otherwise).
HistNew == [runs |-> 0, polled |-> FALSE, fail_start |-> None]

\* The clock advances.
Tick ==
    /\ now < MaxTime
    /\ now' = now + 1
    /\ UNCHANGED <<notSched, runVars, joblist, poll_pc, poll_idx,
                   poll_result, hist, due0>>

\* Jobs::add: possible whenever no poll() borrows the job list.
Add ==
    /\ poll_pc = "idle"
    /\ Len(joblist) < MaxJobs
    /\ \E interval \in 0..MaxInterval :
         joblist' = Append(joblist, Job_new(interval))
    /\ hist' = Append(hist, HistNew)
    /\ UNCHANGED <<notSched, runVars, now, poll_pc, poll_idx, poll_result,
                   due0>>

\* Jobs::poll is called: `for job in &mut self.joblist`
PollStart ==
    /\ poll_pc = "idle"
    /\ poll_pc' = "iter"
    /\ poll_idx' = 1
    /\ poll_result' = "none"
    /\ hist' = [j \in DOMAIN hist |-> [hist[j] EXCEPT !.runs = 0]]
    /\ due0' = {j \in DOMAIN joblist :
                  /\ joblist[j].last_ran # None
                  /\ should_run(joblist[j], now)}
    /\ UNCHANGED <<notSched, runVars, joblist, now>>

\* The loop is over: Ok(())
PollReturn ==
    /\ poll_pc = "iter"
    /\ poll_idx > Len(joblist)
    /\ poll_pc' = "idle"
    /\ poll_result' = "ok"
    /\ hist' = [j \in DOMAIN hist |-> [hist[j] EXCEPT !.polled = TRUE]]
    /\ UNCHANGED <<notSched, runVars, joblist, now, poll_idx, due0>>

\* `if job.should_run()` is false: next job
PollSkip ==
    /\ poll_pc = "iter"
    /\ poll_idx <= Len(joblist)
    /\ ~should_run(joblist[poll_idx], now)
    /\ poll_idx' = poll_idx + 1
    /\ UNCHANGED <<notSched, runVars, joblist, now, poll_pc, poll_result,
                   hist, due0>>

\* MovieFetcher::run entered: clients and inserters are created and the three
\* top-level fetches are started.
RunNew == [pc |-> "top", result |-> "none", fatal |-> FALSE,
           nc |-> 0, ns |-> 0, idx |-> 0,
           showtimes |-> <<>>,       \* `showtimes`
           inserted_ratings |-> {},  \* `inserted_ratings`
           ratings |-> <<>>,         \* rows added to `ratinginserter`
           ratingshows |-> <<>>,     \* rows added to `ratingshowinserter`
           seen |-> {},  \* ghost: <<endpoint, outcome>> of its top-level fetches
           got |-> {}]   \* ghost: records its rating and showtimes tasks returned

\* `if job.should_run() { job.run().await?; }`: the run starts
PollRun ==
    /\ poll_pc = "iter"
    /\ poll_idx <= Len(joblist)
    /\ should_run(joblist[poll_idx], now)
    /\ run_id < MaxRuns
    /\ poll_pc' = "running"
    /\ hist' = [hist EXCEPT ![poll_idx].runs = @ + 1,
                             ![poll_idx].fail_start = now]
    /\ run' = RunNew
    /\ run_id' = run_id + 1
    /\ sink_log' = <<>>
    /\ UNCHANGED <<notSched, tasks, joblist, now, poll_idx, poll_result, due0>>

\* ------------------------------------------------------------ matching.rs
\* Titles are strings over a small alphabet, as sequences of characters.
Alphabet == {"a", "b"}

RECURSIVE Strings(_)
Strings(n) ==
    IF n = 0 THEN {<<>>}
    ELSE LET S == Strings(n - 1) IN
         S \cup {Append(w, c) : w \in {v \in S : Len(v) = n - 1}, c \in Alphabet}

Titles == Strings(MaxTitleLen)

\* Option<i32> release years
Years == {NoYear} \cup (0..MaxYear)

\* RTHit: the fields the matcher and the run read
RTHit(v, t, y) == [vanity |-> v, title |-> t, release_year |-> y]

Min2(a, b) == IF a <= b THEN a ELSE b

\* strsim::levenshtein: insertions, deletions and substitutions
RECURSIVE levenshtein(_, _)
levenshtein(a, b) ==
    IF a = <<>> THEN Len(b)
    ELSE IF b = <<>> THEN Len(a)
    ELSE Min2(Min2(levenshtein(Tail(a), b) + 1, levenshtein(a, Tail(b)) + 1),
              levenshtein(Tail(a), Tail(b))
                  + (IF Head(a) = Head(b) THEN 0 ELSE 1))

\* Scores are f64 in the code; here they are exact integers in units of
\* 1 / ScoreUnit. Every title length up to MaxTitleLen divides TitleUnit.
RECURSIVE Factorial(_)
Factorial(n) == IF n <= 1 THEN 1 ELSE n * Factorial(n - 1)
TitleUnit == Factorial(MaxTitleLen)
ScoreUnit == 10 * TitleUnit

\* 1 - strsim::normalized_levenshtein(a, b), in units of 1 / ScoreUnit:
\* normalized_levenshtein is 1 for two empty strings, else
\* 1 - levenshtein / max(len a, len b).
title_distance(a, b) ==
    IF a = <<>> /\ b = <<>> THEN 0
    ELSE (ScoreUnit * levenshtein(a, b))
            \div (IF Len(a) >= Len(b) THEN Len(a) ELSE Len(b))

Abs(x) == IF x >= 0 THEN x ELSE -x

year_penalty_never(hit, year) == 0

\* `0.1 * |rt_year - pathe_year|`, only when both years are known
year_penalty(hit, year) ==
    IF hit.release_year # NoYear /\ year # NoYear
    THEN TitleUnit * Abs(hit.release_year - year)
    ELSE 0

\* The closure of best_rt_hit: the score of one hit
score_of(hit, title, year) ==
    year_penalty(hit, year) + title_distance(title, hit.title)

\* `.map(|hit| (hit, score))`
scored(hits, title, year) ==
    [i \in DOMAIN hits |->
        [hit |-> hits[i], score |-> score_of(hits[i], title, year)]]

\* Insert x into the sorted sequence s after every element not greater
\* than it (a stable sort keeps equal elements in input order).
RECURSIVE insert_sorted(_, _)
insert_sorted(s, x) ==
    IF s = <<>> THEN <<x>>
    ELSE IF x.score < Head(s).score THEN <<x>> \o s
    ELSE <<Head(s)>> \o insert_sorted(Tail(s), x)

\* itertools `sorted_by(|a, b| a.partial_cmp(b))`: a stable sort by score
RECURSIVE sorted_by(_)
sorted_by(s) ==
    IF s = <<>> THEN <<>>
    ELSE insert_sorted(sorted_by(SubSeq(s, 1, Len(s) - 1)), s[Len(s)])

next_is_last(s) == IF s = <<>> THEN <<>> ELSE <<s[Len(s)]>>

\* Iterator::next(): None (<<>>) or Some(first) (<<first>>)
next(s) == IF s = <<>> THEN <<>> ELSE <<Head(s)>>

\* best_rt_hit
best_rt_hit(hits, title, year) == next(sorted_by(scored(hits, title, year)))

\* ------------------------------------------------------- MovieFetcher::run
JsonOutcomes == {"ok", "net", "decode"}

TablesChildFirst == <<"cinemas", "cities", "shows", "posters", "genres",
                      "showtimes", "ratingshows", "ratings">>

\* The order of the `.build().execute(&self.pool).await?` calls of run
Tables == <<"cities", "cinemas", "shows", "posters", "genres", "showtimes",
            "ratings", "ratingshows">>

\* tokio::spawn(f): a running task whose JoinHandle the spawner holds
Task(r, k, c, s) ==
    [run |-> r, kind |-> k, cinema |-> c, show |-> s, st |-> "fetch",
     res |-> "none", val |-> <<>>, handle |-> TRUE, todo |-> <<>>,
     o |-> "none"]     \* ghost: what its own fetch observed

\* Orders in which a HashMap can yield the keys S.
Perms(S) ==
    {f \in [1..Cardinality(S) -> S] : \A i, j \in DOMAIN f : i # j => f[i] # f[j]}

\* Task t returns res: kept for its JoinHandle, gone when the handle was dropped.
FinishIn(S, t, res) ==
    IF t.handle
    THEN (S \ {t}) \cup {[t EXCEPT !.st = "done", !.res = res, !.todo = <<>>]}
    ELSE S \ {t}

\* Task t returns Ok(v).
FinishOk(S, t, v) ==
    LET u == [t EXCEPT !.val = v] IN FinishIn((S \ {t}) \cup {u}, u, "ok")

\* Task t returns Err: what it had collected is dropped with it.
FinishErr(S, t) ==
    LET u == [t EXCEPT !.val = <<>>] IN FinishIn((S \ {t}) \cup {u}, u, "err")

\* Ghost: task t notes the outcome o of its fetch.
Noting(t, o) == [t EXCEPT !.o = o]

\* The task set with t replaced by u.
Swap(S, t, u) == (S \ {t}) \cup {u}

\* The JoinHandles of the tasks H are dropped: a finished task's result is
\* discarded, a running task is detached and keeps running.
Drop(S, H) ==
    (S \ H) \cup {[t EXCEPT !.handle = FALSE] : t \in {u \in H : u.st # "done"}}

\* Handles held by MovieFetcher::run (rating_handles, handles).
RunHandles ==
    {t \in tasks : t.run = run_id /\ t.kind \in {"rating", "cinema"} /\ t.handle}

\* Handles held by fetch_showtimes_cinema of cinema task t.
Children(t) ==
    {u \in tasks : u.run = t.run /\ u.kind = "showtimes"
                   /\ u.cinema = t.cinema /\ u.handle}

JoinFailedNever(t) == FALSE

\* `handle.await??` yields an error
JoinFailed(t) == t.res = "err"

\* A fetch of the run in progress (or of the latest run) failed fatally.
Fatal(t, bad) ==
    IF bad /\ t.run = run_id THEN [run EXCEPT !.fatal = TRUE] ELSE run

\* Elements of a sequence.
Range(s) == {s[i] : i \in DOMAIN s}

\* Ghost: task t of the latest run returns; if it is a rating or showtimes
\* task it returns the records val.
Observed(t, bad, val) ==
    IF t.run = run_id
    THEN [Fatal(t, bad) EXCEPT
            !.got = @ \cup (IF t.kind \in {"rating", "showtimes"}
                            THEN Range(val) ELSE {})]
    ELSE run

\* run returns Err: Job::run and poll return it with `?`; run's handles drop.
RunFail(r) ==
    /\ run' = [r EXCEPT !.pc = "none", !.result = "err"]
    /\ tasks' = Drop(tasks, RunHandles)
    /\ joblist' = [joblist EXCEPT ![poll_idx] = Job_run(@, FALSE, now)]
    /\ poll_pc' = "idle"
    /\ poll_result' = "err"
    /\ hist' = [j \in DOMAIN hist |-> [hist[j] EXCEPT !.polled = TRUE]]
    /\ UNCHANGED <<notSched, now, poll_idx, due0, run_id>>

\* run panics: the panic unwinds through JobRunner::run, Job::run and poll
\* (none returns, last_ran is not stamped, no later job is polled) and drops
\* the JoinHandles run holds, which detaches their tasks.
RunPanics(r) ==
    /\ run' = [r EXCEPT !.pc = "none", !.result = "panic"]
    /\ tasks' = Drop(tasks, RunHandles)
    /\ poll_pc' = "panicked"
    /\ poll_result' = "panic"
    /\ UNCHANGED <<notSched, now, poll_idx, due0, run_id, joblist, hist>>

\* run returns Ok: Job::run stamps last_ran and the loop of poll goes on.
RunOk ==
    /\ run' = [run EXCEPT !.pc = "none", !.result = "ok"]
    /\ joblist' = [joblist EXCEPT ![poll_idx] = Job_run(@, TRUE, now)]
    /\ poll_pc' = "iter"
    /\ poll_idx' = poll_idx + 1
    /\ hist' = [hist EXCEPT ![poll_idx].fail_start = None]
    /\ UNCHANGED <<notSched, now, poll_result, due0, run_id, tasks>>

\* The driver of poll() catches the unwind of a panicked run (catch_unwind, or
\* the join of the task that polled): Jobs is intact, and poll() and add()
\* can be called on it again.
CatchUnwind ==
    /\ poll_pc = "panicked"
    /\ poll_pc' = "idle"
    /\ UNCHANGED <<notSched, runVars, joblist, now, poll_idx, poll_result,
                   hist, due0>>

\* JobRunner::run of any Runnable, seen from Job::run: it returns Ok or Err,
\* or it panics.
RunnerReturns ==
    /\ poll_pc = "running"
    /\ run.pc = "top"
    /\ \E res \in {"ok", "err", "panic"} :
         CASE res = "ok" -> RunOk
           [] res = "err" -> RunFail(run)
           [] res = "panic" -> RunPanics(run)
    /\ UNCHANGED sink_log

\* The endpoints of the three top-level fetches, in try_join! order.
TopEndpoints == <<"cinemas", "cities", "shows">>

\* `try_join!(cinemas, cities, shows)?`, then the spawn loops of run: one
\* rating task per show, one task per cinema. The rating loop flattens each
\* show before it spawns its task, and Show::flatten unwraps the parse of
\* the first release date: the loop stops at the first show `bad` whose date
\* is not in PATHE_DATE_FORMAT, with the tasks of the shows before it
\* spawned and running (bad = 0: every date parses).
TopLevel ==
    /\ poll_pc = "running"
    /\ run.pc = "top"
    /\ \E o \in [1..3 -> JsonOutcomes] :
         LET seen == {<<TopEndpoints[i], o[i]>> : i \in 1..3} IN
         IF \A i \in 1..3 : o[i] = "ok"
         THEN \E nc \in 0..MaxCinemas, ns \in 0..MaxShows : \E bad \in 0..ns :
                IF bad = 0
                THEN /\ run' = [run EXCEPT !.pc = "join_cinemas", !.nc = nc,
                                      !.ns = ns, !.idx = 1, !.seen = seen]
                     /\ tasks' = tasks
                          \cup {Task(run_id, "rating", 0, s) : s \in 1..ns}
                          \cup {Task(run_id, "cinema", c, 0) : c \in 1..nc}
                     /\ UNCHANGED <<notSched, schedVars, run_id>>
                ELSE /\ run' = [run EXCEPT !.pc = "flatten", !.ns = bad - 1,
                                      !.seen = seen]
                     /\ tasks' = tasks
                          \cup {Task(run_id, "rating", 0, s) : s \in 1..(bad - 1)}
                     /\ UNCHANGED <<notSched, schedVars, run_id>>
         ELSE RunFail([run EXCEPT !.fatal = TRUE, !.seen = seen])
    /\ UNCHANGED sink_log

\* Show::flatten: `NaiveDate::parse_from_str(..).unwrap()` on a release date
\* that does not parse.
FlattenPanics ==
    /\ poll_pc = "running"
    /\ run.pc = "flatten"
    /\ RunPanics(run)
    /\ UNCHANGED sink_log

\* The task whose handle run awaits next.
Awaited(k) ==
    CHOOSE t \in tasks :
        /\ t.run = run_id
        /\ t.kind = k
        /\ t.handle
        /\ IF k = "cinema" THEN t.cinema = run.idx ELSE t.show = run.idx

\* `for handle in handles { handle.await?? }`: join the cinema tasks in order
JoinCinemas ==
    /\ poll_pc = "running"
    /\ run.pc = "join_cinemas"
    /\ IF run.idx > run.nc
       THEN /\ run' = [run EXCEPT !.pc = "join_ratings", !.idx = 1]
            /\ UNCHANGED <<notSched, schedVars, run_id, tasks>>
       ELSE LET t == Awaited("cinema") IN
            /\ t.st = "done"
            /\ IF JoinFailed(t)
               THEN RunFail(run)
               ELSE /\ run' = [run EXCEPT !.idx = @ + 1,
                                          !.showtimes = @ \o t.val]
                    /\ tasks' = tasks \ {t}
                    /\ UNCHANGED <<notSched, schedVars, run_id>>
    /\ UNCHANGED sink_log

NeverInserted(r, slug) == FALSE

\* `inserted_ratings.contains(&rating.slug)`
AlreadyInserted(r, slug) == slug \in r.inserted_ratings

\* The body of the rating join loop on `rating: Option<(Rating, RatingShow)>`:
\* a rating is added once per slug, its association always. A match is
\* <<rating slug, show slug>>.
CollectRating(r, rating) ==
    IF rating = <<>> THEN r
    ELSE LET m == rating[1] IN
         IF ~AlreadyInserted(r, m[1])
         THEN [r EXCEPT !.inserted_ratings = @ \cup {m[1]},
                        !.ratings = Append(@, m),
                        !.ratingshows = Append(@, m)]
         ELSE [r EXCEPT !.ratingshows = Append(@, m)]

RatingsNotAwaited(r) == TRUE

\* `for handle in rating_handles` has gone through every handle
RatingsJoined(r) == r.idx > r.ns

\* `for handle in rating_handles { handle.await?? ... }`: join the rating tasks
JoinRatings ==
    /\ poll_pc = "running"
    /\ run.pc = "join_ratings"
    /\ IF RatingsJoined(run)
       THEN /\ run' = [run EXCEPT !.pc = "sink", !.idx = 1]
            /\ UNCHANGED <<notSched, schedVars, run_id, tasks>>
       ELSE LET t == Awaited("rating") IN
            /\ t.st = "done"
            /\ IF JoinFailed(t)
               THEN RunFail(run)
               ELSE /\ run' = CollectRating([run EXCEPT !.idx = @ + 1], t.val)
                    /\ tasks' = tasks \ {t}
                    /\ UNCHANGED <<notSched, schedVars, run_id>>
    /\ UNCHANGED sink_log

\* `<table>inserter.build().execute(&self.pool).await?` for the next table
SinkWrite ==
    /\ poll_pc = "running"
    /\ run.pc = "sink"
    /\ sink_log' = Append(sink_log, Tables[Len(sink_log) + 1])
    /\ \E ok \in BOOLEAN :
         IF ~ok
         THEN RunFail(run)
         ELSE IF Len(sink_log) + 1 = Len(Tables)
              THEN RunOk
              ELSE UNCHANGED <<notSched, schedVars, run, run_id, tasks>>

\* The hits a rating search returns to a run: any rating id; the title and
\* the year of the hits and of the show play no part in the run.
ShowTitle == <<>>
ShowYear == NoYear
RunHits == {RTHit(v, ShowTitle, ShowYear) : v \in 1..MaxRatingIds}

\* Sequences over S of length at most n.
RECURSIVE SeqsUpTo(_, _)
SeqsUpTo(S, n) ==
    IF n = 0 THEN {<<>>}
    ELSE LET T == SeqsUpTo(S, n - 1) IN
         T \cup {Append(w, x) : w \in {v \in T : Len(v) = n - 1}, x \in S}

\* RTResponse.results: no container, one container of hits, or a second
\* (empty) container behind it. A container is its `hits`; the hits of a
\* run all score alike, so containers of at most one hit stand for all.
RTResponses ==
    {<<>>} \cup {<<hits>> : hits \in SeqsUpTo(RunHits, 1)}
           \cup {<<hits, <<>>>> : hits \in SeqsUpTo(RunHits, 1)}

NoResultsOrNoHits(resp) == resp = <<>> \/ resp[1] = <<>>

\* `.results.into_iter().next()` is None
NoResults(resp) == resp = <<>>

\* fetch_show_rating on the outcome o of get_json_post and, when it decoded,
\* the response: `.results.into_iter().next().context(..)?`, best_rt_hit,
\* and the projection of the best hit to (Rating, RatingShow).
fetch_show_rating(o, resp, show_slug, title, year) ==
    IF o # "ok" THEN [res |-> "err", val |-> <<>>]
    ELSE IF NoResults(resp) THEN [res |-> "err", val |-> <<>>]
    ELSE LET best_hit == best_rt_hit(resp[1], title, year) IN
         [res |-> "ok",
          val |-> [i \in DOMAIN best_hit |-> <<best_hit[i].hit.vanity, show_slug>>]]

\* Ghost: what the rating search answered: a transport or decode failure, an
\* empty results list, a first container without hits, or hits.
Answer(o, resp) ==
    IF o # "ok" THEN o
    ELSE IF resp = <<>> THEN "empty"
    ELSE IF resp[1] = <<>> THEN "nohit"
    ELSE "hit"

\* fetch_show_rating: the search fetch, the first results container, the
\* best hit
RatingFetch(t) ==
    /\ t.kind = "rating"
    /\ t.st = "fetch"
    /\ \E o \in JsonOutcomes :
       \E resp \in (IF o = "ok" THEN RTResponses ELSE {<<>>}) :
         LET r == fetch_show_rating(o, resp, t.show, ShowTitle, ShowYear)
             u == Noting(t, Answer(o, resp))
             S == Swap(tasks, t, u) IN
         /\ tasks' = IF r.res = "ok" THEN FinishOk(S, u, r.val)
                                     ELSE FinishErr(S, u)
         /\ run' = Observed(t, r.res = "err", r.val)
    /\ UNCHANGED <<notSched, schedVars, run_id, sink_log>>

BailsOnDecodeToo(o) == o # "ok"

\* `match client.get_json(..)`: a decode error is an empty map, a network
\* error bails
Bails(o) == o = "net"

\* fetch_showtimes on the outcome o of get_json and, when it decoded, the n
\* showtimes of the payload, each stamped with the show and cinema slugs
fetch_showtimes(o, n, show_slug, cinema_slug) ==
    IF Bails(o)
    THEN [res |-> "err", val |-> <<>>]
    ELSE [res |-> "ok",
          val |-> IF o = "ok"
                  THEN [k \in 1..n |-> <<show_slug, cinema_slug, k>>]
                  ELSE <<>>]

\* fetch_showtimes: a decode error is an empty result, a network error fails
ShowtimesFetch(t) ==
    /\ t.kind = "showtimes"
    /\ t.st = "fetch"
    /\ \E o \in JsonOutcomes :
       \E n \in (IF o = "ok" THEN 0..MaxShowtimes ELSE {0}) :
         LET r == fetch_showtimes(o, n, t.show, t.cinema)
             u == Noting(t, o)
             S == Swap(tasks, t, u) IN
         /\ tasks' = IF r.res = "ok" THEN FinishOk(S, u, r.val)
                                     ELSE FinishErr(S, u)
         /\ run' = Observed(t, r.res = "err", r.val)
    /\ UNCHANGED <<notSched, schedVars, run_id, sink_log>>

\* fetch_showtimes_cinema: fetch_cinema_shows(..).await?, then one showtimes
\* task per show slug
CinemaShowsFetch(t) ==
    /\ t.kind = "cinema"
    /\ t.st = "fetch"
    /\ \E o \in JsonOutcomes :
         LET u == Noting(t, o)
             S == Swap(tasks, t, u) IN
         /\ IF o # "ok"
            THEN tasks' = FinishErr(S, u)
            ELSE \E slugs \in SUBSET (1..MaxCinemaShows) :
                   IF slugs = {}
                   THEN tasks' = FinishOk(S, u, <<>>)
                   ELSE \E order \in Perms(slugs) :
                          tasks' = (S \ {u})
                            \cup {[u EXCEPT !.st = "join", !.todo = order]}
                            \cup {Task(t.run, "showtimes", t.cinema, s) : s \in slugs}
         /\ run' = Observed(t, o # "ok", <<>>)
    /\ UNCHANGED <<notSched, schedVars, run_id, sink_log>>

\* fetch_showtimes_cinema: `for handle in handles { handle.await?? }`
CinemaJoin(t) ==
    /\ t.kind = "cinema"
    /\ t.st = "join"
    /\ LET c == CHOOSE u \in Children(t) : u.show = Head(t.todo) IN
       /\ c.st = "done"
       /\ IF JoinFailed(c)
          THEN tasks' = FinishErr(Drop(tasks, Children(t)), t)
          ELSE LET S == tasks \ {c}
                   rest == Tail(t.todo)
                   res == t.val \o c.val IN
               IF rest = <<>>
               THEN tasks' = FinishOk(S, t, res)
               ELSE tasks' = (S \ {t})
                        \cup {[t EXCEPT !.todo = rest, !.val = res]}
    /\ UNCHANGED <<notSched, schedVars, run, run_id, sink_log>>

\* No call of best_rt_hit is followed.
NoMatch == [hits |-> <<>>, title |-> <<>>, year |-> NoYear,
            pc |-> "none", best |-> <<>>]

\* Jobs::init: an empty job list; MovieFetcher builds its clients with
\* with_limit(10).with_max_retries(3).
InitJobs ==
    /\ now = 0
    /\ poll_pc = "idle"
    /\ poll_idx = 0
    /\ poll_result = "none"
    /\ due0 = {}
    /\ run = [RunNew EXCEPT !.pc = "none"]
    /\ run_id = 0
    /\ tasks = {}
    /\ sink_log = <<>>

InitCalls ==
    /\ pc = [t \in Callers |-> "idle"]
    /\ retries = [t \in Callers |-> 0]
    /\ err = [t \in Callers |-> NoErr]
    /\ attempts = [t \in Callers |-> 0]
    /\ result = [t \in Callers |-> "none"]

\* Concurrent callers on one client, small retry budgets: the counter stays
\* far from 255, so the two builds behave alike and one is followed.
InitClient ==
    /\ \E r \in 0..MaxRetries, lim \in BOOLEAN : ClientNew(r, lim)
    /\ IF limiter THEN \E n \in 1..MaxQuota : bucket = with_limit(n)
                  ELSE bucket = NoBucket
    /\ matcher = NoMatch
    /\ overflow_checks = FALSE
    /\ callers = 1..NumCallers
    /\ InitCalls
    /\ InitJobs
    /\ joblist = <<>>
    /\ hist = <<>>

\* One caller, retry budgets at both ends of the u8 range.
InitU8 ==
    /\ \E r \in {0, 1, 2, U8Max - 1, U8Max}, lim \in BOOLEAN : ClientNew(r, lim)
    /\ bucket = IF limiter THEN with_limit(MaxQuota) ELSE NoBucket
    /\ matcher = NoMatch
    /\ overflow_checks \in BOOLEAN
    /\ callers = {1}
    /\ InitCalls
    /\ InitJobs
    /\ joblist = <<>>
    /\ hist = <<>>

\* The clients MovieFetcher::run builds; no get/post call is followed here.
InitNoCalls ==
    /\ ClientNew(3, TRUE)
    /\ bucket = with_limit(10)
    /\ matcher = NoMatch
    /\ overflow_checks = FALSE
    /\ callers = {}
    /\ InitCalls

Init ==
    /\ InitJobs
    /\ joblist = <<>>
    /\ hist = <<>>
    /\ InitNoCalls

Next ==
    \/ Tick
    \/ Add
    \/ PollStart
    \/ PollReturn
    \/ PollSkip
    \/ PollRun
    \/ TopLevel
    \/ FlattenPanics
    \/ CatchUnwind
    \/ JoinCinemas
    \/ JoinRatings
    \/ SinkWrite
    \/ \E t \in tasks : RatingFetch(t)
    \/ \E t \in tasks : ShowtimesFetch(t)
    \/ \E t \in tasks : CinemaShowsFetch(t)
    \/ \E t \in tasks : CinemaJoin(t)

Spec == Init /\ [][Next]_vars

\* The scheduler alone, over any Runnable: a run is its result.
NextSched ==
    \/ Tick
    \/ Add
    \/ PollStart
    \/ PollReturn
    \/ PollSkip
    \/ PollRun
    \/ RunnerReturns
    \/ CatchUnwind

SpecSched == Init /\ [][NextSched]_vars

\* main.rs: `Jobs::init().await?.add(JobKind::Movies, interval)`
InitMain ==
    /\ InitJobs
    /\ \E interval \in 0..MaxInterval : joblist = <<Job_new(interval)>>
    /\ hist = <<HistNew>>
    /\ InitNoCalls

\* main.rs: `loop { jobs.poll().await?; sleep }`: an error ends the loop
MainPoll ==
    /\ poll_result # "err"
    /\ PollStart

\* main.rs: when poll() returns an error main returns it, and when the run
\* panics the panic unwinds through main: the tokio runtime shuts down and
\* the process exits. Until then the spawned tasks go on running on the
\* worker threads.
MainExit ==
    /\ poll_result \in {"err", "panic"}
    /\ poll_pc \in {"idle", "panicked"}
    /\ poll_pc' = "exited"
    /\ UNCHANGED <<notSched, runVars, joblist, now, poll_idx, poll_result,
                   hist, due0>>

\* The process has not exited: its tasks are polled.
MainAlive == poll_pc # "exited"

\* Time passes during thread::sleep(poll_rate) and while poll() is awaited.
NextMain ==
    \/ Tick
    \/ MainPoll
    \/ MainExit
    \/ PollReturn
    \/ PollSkip
    \/ PollRun
    \/ TopLevel
    \/ FlattenPanics
    \/ JoinCinemas
    \/ JoinRatings
    \/ SinkWrite
    \/ \E t \in tasks : MainAlive /\ RatingFetch(t)
    \/ \E t \in tasks : MainAlive /\ ShowtimesFetch(t)
    \/ \E t \in tasks : MainAlive /\ CinemaShowsFetch(t)
    \/ \E t \in tasks : MainAlive /\ CinemaJoin(t)

SpecMain == InitMain /\ [][NextMain]_vars

\* One run of the job: the first poll() of main.rs and what it starts.
FirstPoll ==
    /\ run_id = 0
    /\ MainPoll

NextRun ==
    \/ Tick
    \/ FirstPoll
    \/ MainExit
    \/ PollReturn
    \/ PollRun
    \/ TopLevel
    \/ FlattenPanics
    \/ JoinCinemas
    \/ JoinRatings
    \/ SinkWrite
    \/ \E t \in tasks : MainAlive /\ RatingFetch(t)
    \/ \E t \in tasks : MainAlive /\ ShowtimesFetch(t)
    \/ \E t \in tasks : MainAlive /\ CinemaShowsFetch(t)
    \/ \E t \in tasks : MainAlive /\ CinemaJoin(t)

SpecRun == InitMain /\ [][NextRun]_vars

\* A driver that goes on polling after poll() returned an error, followed
\* until MaxRepolls runs have started.
Repoll ==
    /\ run_id < MaxRepolls
    /\ PollStart

NextKeepPolling ==
    \/ Tick
    \/ Repoll
    \/ PollReturn
    \/ PollSkip
    \/ PollRun
    \/ TopLevel
    \/ FlattenPanics
    \/ CatchUnwind
    \/ JoinCinemas
    \/ JoinRatings
    \/ SinkWrite
    \/ \E t \in tasks : RatingFetch(t)
    \/ \E t \in tasks : ShowtimesFetch(t)
    \/ \E t \in tasks : CinemaShowsFetch(t)
    \/ \E t \in tasks : CinemaJoin(t)

SpecKeepPolling == InitMain /\ [][NextKeepPolling]_vars

\* The limiter replenishes a used cell; the time it takes is not followed.
Replenish ==
    /\ limiter
    /\ bucket.cells < bucket.n
    /\ bucket' = [bucket EXCEPT !.cells = @ + 1]
    /\ UNCHANGED <<max_retries, limiter, overflow_checks, sem, sem_waiters,
                   callers, pc, retries, err, attempts, result, notClient>>

NextClient ==
    \/ Replenish
    \/ \E t \in Callers : Call(t)
    \/ \E t \in Callers : LoopTop(t)
    \/ \E t \in Callers : PermitPhase(t)
    \/ \E t \in Callers : SleepDone(t)
    \/ \E t \in Callers : UntilReady(t)
    \/ \E t \in Callers : SendRequest(t)
    \/ \E t \in Callers : Send(t)
    \/ \E t \in Callers : Bytes(t)

SpecClient == InitClient /\ [][NextClient]_vars
SpecU8 == InitU8 /\ [][NextClient]_vars

\* The steps of get_or_post that the task of call t takes once it is polled.
TaskStep(t) ==
    \/ LoopTop(t)
    \/ PermitPhase(t)
    \/ SleepDone(t)
    \/ UntilReady(t)
    \/ SendRequest(t)
    \/ Send(t)
    \/ Bytes(t)

\* The tokio scheduler polls every task that can make progress, every sleep
\* ends, every request gets its response or error, and the limiter keeps
\* replenishing.
Fairness ==
    /\ WF_vars(Replenish)
    /\ \A t \in Callers : WF_vars(TaskStep(t))

SpecClientFair == SpecClient /\ Fairness
SpecU8Fair == SpecU8 /\ Fairness

\* Concurrent calls through one rate-limited client without retries, with
\* the limiter's clock followed.
InitLimit ==
    /\ ClientNew(0, TRUE)
    /\ \E n \in 1..MaxQuota : bucket = with_limit(n)
    /\ matcher = NoMatch
    /\ overflow_checks = FALSE
    /\ callers = Callers
    /\ InitCalls
    /\ InitJobs
    /\ joblist = <<>>
    /\ hist = <<>>

\* With max_retries = 0 no call retries, so none sleeps in a cooldown; with
\* a limiter every send follows until_ready().
NextLimit ==
    \/ ClientTick
    \/ \E t \in Callers : Call(t)
    \/ \E t \in Callers : LoopTop(t)
    \/ \E t \in Callers : PermitPhase(t)
    \/ \E t \in Callers : UntilReady(t)
    \/ \E t \in Callers : Send(t)
    \/ \E t \in Callers : Bytes(t)

SpecLimit == InitLimit /\ [][NextLimit]_vars

\* The hits given to best_rt_hit: hit i of a list has vanity i.
HitLists ==
    {[i \in DOMAIN ty |-> RTHit(i, ty[i][1], ty[i][2])] :
        ty \in SeqsUpTo(Titles \X Years, MaxHits)}

\* One call best_rt_hit(hits, title, year)
InitMatch ==
    /\ \E h \in HitLists, t \in Titles, y \in Years :
         matcher = [hits |-> h, title |-> t, year |-> y,
                    pc |-> "call", best |-> <<>>]
    /\ ClientNew(0, FALSE)
    /\ bucket = NoBucket
    /\ overflow_checks = FALSE
    /\ callers = {}
    /\ InitCalls
    /\ InitJobs
    /\ joblist = <<>>
    /\ hist = <<>>

\* best_rt_hit returns
Match ==
    /\ matcher.pc = "call"
    /\ matcher' = [matcher EXCEPT
                     !.pc = "ret",
                     !.best = best_rt_hit(matcher.hits, matcher.title,
                                          matcher.year)]
    /\ UNCHANGED <<clientVars, schedVars, runVars>>

NextMatch == Match

SpecMatch == InitMatch /\ [][NextMatch]_vars

\* ================================================================= claims

\* Tasks that own the permit of Client.sem.
Holders == {t \in Callers : pc[t] \in {"holding", "sleeping"}}

\* Task t puts an HTTP request on the wire in this step.
Sends(t) == pc[t] # "sending" /\ pc'[t] = "sending"

\* Task t leaves its permit phase in this step.
PassesPermit(t) ==
    /\ pc[t] \in {"holding", "sleeping"}
    /\ pc'[t] \notin {"holding", "sleeping"}

\* C1: with max_retries = r, a call (with a valid url) never makes more than
\* r + 1 attempts, always ends by returning a body or an error, returns an
\* error only after exactly r + 1 failed attempts and with the last error
\* recorded, and returns the body of attempt k <= r after exactly k + 1
\* attempts.
C1_RetryCount ==
    \A t \in callers :
        err[t] # "url" =>
            /\ attempts[t] <= max_retries + 1
            /\ (pc[t] = "done" => result[t] \in {"ok", "err"})
            /\ (result[t] = "err" =>
                    attempts[t] = max_retries + 1 /\ err[t] # NoErr)
            /\ (result[t] = "ok" =>
                    attempts[t] = retries[t] + 1 /\ retries[t] <= max_retries)

\* C1 restricted to retry budgets below the top of the u8 range.
C1_BelowU8Max == max_retries < U8Max => C1_RetryCount

\* C2: at most one task owns the permit; a request is sent only after a
\* permit phase; a retry keeps the permit from its acquisition through the
\* whole cooldown sleep; and while a task sleeps in its cooldown no other
\* task leaves its permit phase.
C2_PermitGate ==
    /\ [](/\ Cardinality(Holders) + sem = 1
          /\ sem \in {0, 1}
          /\ \A t \in Callers : pc[t] = "acquire" => sem = 0)
    /\ [][\A t \in Callers :
            /\ Sends(t) => pc[t] \in {"limiter", "ready"}
            /\ (pc[t] \notin {"limiter", "ready"}
                   /\ pc'[t] \in {"limiter", "ready"})
                   => pc[t] \in {"holding", "sleeping"}
            /\ (pc[t] \notin {"holding", "sleeping"} /\ pc'[t] \in {"holding", "sleeping"})
                   => (pc[t] \in {"loop", "acquire"} /\ pc'[t] = "holding")
            /\ (pc[t] = "holding" /\ retries[t] > 0 /\ pc'[t] # "holding")
                   => pc'[t] = "sleeping"
            /\ (pc[t] = "sleeping" /\ pc'[t] = "sleeping")
                   => \A u \in Callers : ~PassesPermit(u)]_vars

\* C2 witness: one call sleeps in its cooldown holding the permit while
\* another call queues for the permit.
C2_Witness ==
    \E t, u \in Callers : pc[t] = "sleeping" /\ pc[u] = "acquire" /\ sem = 0

\* C3: while a call is in its cooldown sleep, no task sends an HTTP request
\* through the client.
C3_NoRequestDuringCooldown ==
    [][(\E u \in Callers : pc[u] = "sleeping" /\ pc'[u] = "sleeping")
           => \A t \in Callers : ~Sends(t)]_vars

\* A run of the job at poll_idx returns an error in this step.
RunFails == run.pc # "none" /\ run'.pc = "none" /\ run'.result = "err"

\* A run of the job at poll_idx returns Ok in this step.
RunSucceeds == run.pc # "none" /\ run'.pc = "none" /\ run'.result = "ok"

\* A poll() pass returns in this step.
PassEnds == poll_pc \in {"iter", "running"} /\ poll_pc' = "idle"

\* A run of the job at poll_idx starts in this step.
RunStarts == poll_pc = "iter" /\ poll_pc' = "running"

\* C4: a job's last_ran changes only when a run of that job inside poll()
\* succeeds, and then becomes the time of completion; a failing run leaves
\* the whole job list unchanged; run_interval never changes and jobs are
\* never removed.
C4_LastRan ==
    [][/\ Len(joblist') >= Len(joblist)
       /\ \A j \in DOMAIN joblist :
            /\ joblist'[j].run_interval = joblist[j].run_interval
            /\ joblist'[j].last_ran # joblist[j].last_ran =>
                 /\ poll_pc = "running"
                 /\ j = poll_idx
                 /\ RunSucceeds
                 /\ joblist'[j].last_ran = now'
       /\ RunFails => joblist' = joblist]_vars

\* C4 witness: a job was stamped by a successful run that completed after
\* time 0, and a later run failed.
C4_Witness ==
    /\ poll_result = "err"
    /\ run.result = "err"
    /\ \E j \in DOMAIN joblist : joblist[j].last_ran > 0

\* C5: when a run fails, the error is the result of poll() and every later
\* job that is due has been run in the same pass when the pass ends.
C5_LaterJobsStillRun ==
    [][/\ RunFails => (PassEnds => poll_result' = "err")
       /\ (PassEnds /\ poll_result' = "err") =>
            \A j \in DOMAIN joblist :
                (j > poll_idx /\ should_run(joblist[j], now))
                    => hist'[j].runs >= 1]_vars

\* C6: the first poll() pass after a job's registration runs that job.
C6_FirstPollRuns ==
    [][PassEnds =>
         \A j \in DOMAIN joblist : ~hist[j].polled => hist'[j].runs >= 1]_vars

\* C7: a job that has run successfully is not run while less than its
\* interval has elapsed since last_ran; a pass made when at least the
\* interval has elapsed runs it exactly once; no pass runs a job twice.
C7_IntervalGate ==
    /\ [](poll_pc = "running" /\ joblist[poll_idx].last_ran # None
            => now - joblist[poll_idx].last_ran >= joblist[poll_idx].run_interval)
    /\ [][PassEnds =>
            \A j \in DOMAIN joblist :
                /\ hist'[j].runs <= 1
                /\ j \in due0 => hist'[j].runs = 1]_vars

\* C8: a job whose latest run failed is not run again before run_interval
\* has elapsed since that failed run started.
C8_NotAccelerated ==
    [][RunStarts =>
         (hist[poll_idx].fail_start # None =>
            now - hist[poll_idx].fail_start >= joblist[poll_idx].run_interval)]_vars

\* The runs that have something executing: the run in progress and every run
\* with a live task.
ActiveRuns ==
    {t.run : t \in {u \in tasks : u.st # "done"}}
        \cup (IF run.pc # "none" THEN {run_id} ELSE {})

\* C9: at most one job run, spawned fetch tasks included, executes at any
\* moment.
C9_OneRunAtATime == Cardinality(ActiveRuns) <= 1

\* C10: once a fetch of a run has failed fatally, that run does not succeed
\* and the sink is never invoked for it.
C10_AllOrNothing ==
    run.fatal => (run.result # "ok" /\ run.pc # "sink" /\ sink_log = <<>>)

\* C10 witness: a run got past its top-level fetches, spawned its tasks, had
\* a task fail fatally, and returned an error with nothing written.
C10_Witness ==
    /\ run.fatal
    /\ run.result = "err"
    /\ run.idx >= 1
    /\ run.nc >= 1
    /\ sink_log = <<>>

\* Rating matches <<rating id, show>> and showtimes <<show, cinema, k>> that
\* the tasks of the latest run returned.
GotMatches == {g \in run.got : Len(g) = 2}
GotShowtimes == {g \in run.got : Len(g) = 3}

\* A sequence without repeated elements.
NoRepeat(s) == \A i, j \in DOMAIN s : i # j => s[i] # s[j]

\* C11: when the first sink write is issued (and from then on) no task
\* spawned by the run is left running or uncollected, and the showtimes and
\* association records to be written are exactly the records its tasks
\* returned, each once, whatever the order in which the tasks completed.
C11_FanIn ==
    (run.pc = "sink" \/ sink_log # <<>>) =>
        /\ \A t \in tasks : t.run # run_id
        /\ Range(run.showtimes) = GotShowtimes
        /\ NoRepeat(run.showtimes)
        /\ Range(run.ratingshows) = GotMatches
        /\ NoRepeat(run.ratingshows)

\* C11 witness: the first write is about to be issued by a run that spawned
\* a rating task and a cinema task with a showtimes task, all collected.
C11_Witness ==
    /\ run.pc = "sink"
    /\ sink_log = <<>>
    /\ run.ns >= 1
    /\ run.nc >= 1
    /\ GotMatches # {}
    /\ GotShowtimes # {}

\* Outcomes of a fetch that are fatal at an endpoint: a transport failure
\* anywhere, a decode failure anywhere but at the showtimes endpoint.
FatalAt(endpoint, o) ==
    o = "net" \/ (o = "decode" /\ endpoint # "showtimes")

\* C12: a showtimes task fails exactly on a transport failure and returns
\* zero showtimes after a decode failure; a cinema task fails on a transport
\* or decode failure of its show list; a rating task fails on a transport or
\* decode failure of its search; a run that saw a fatal outcome at a
\* top-level endpoint, or one of whose tasks failed, never succeeds.
C12_DecodePolicy ==
    /\ \A t \in tasks :
          t.st = "done" =>
            /\ t.kind = "showtimes" =>
                  /\ t.res = "err" <=> FatalAt(t.kind, t.o)
                  /\ t.o = "decode" => (t.res = "ok" /\ t.val = <<>>)
            /\ t.kind \in {"cinema", "rating"} =>
                  (FatalAt(t.kind, t.o) => t.res = "err")
    /\ (\E e \in run.seen : FatalAt(e[1], e[2])) => run.fatal
    /\ run.fatal => (run.result # "ok" /\ run.pc # "sink")
    /\ \A t \in tasks :
          (t.run = run_id /\ t.st = "done" /\ t.res = "err") => run.fatal

\* C12 witness: a showtimes task whose response did not decode has returned
\* Ok with zero showtimes, and the run goes on.
C12_Witness ==
    /\ run.pc \in {"join_cinemas", "join_ratings", "sink"}
    /\ ~run.fatal
    /\ \E t \in tasks :
          /\ t.kind = "showtimes" /\ t.st = "done" /\ t.o = "decode"
          /\ t.res = "ok" /\ t.val = <<>>

\* The least element of a non-empty set of integers.
Least(S) == CHOOSE x \in S : \A y \in S : x <= y

\* C13: once the rating tasks are joined, the rating rows hold exactly one
\* row per distinct rating id matched, the one of the first show in show
\* order that matched it, and the association rows hold exactly one row per
\* show that obtained a match.
C13_Dedup ==
    run.pc = "sink" =>
        /\ NoRepeat([i \in DOMAIN run.ratings |-> run.ratings[i][1]])
        /\ {r[1] : r \in Range(run.ratings)} = {g[1] : g \in GotMatches}
        /\ \A r \in Range(run.ratings) :
              r[2] = Least({g[2] : g \in {h \in GotMatches : h[1] = r[1]}})
        /\ Range(run.ratingshows) = GotMatches
        /\ Len(run.ratingshows) = Cardinality(GotMatches)

\* C13 witness: two shows resolved to the same rating id.
C13_Witness ==
    /\ run.pc = "sink"
    /\ \E g, h \in GotMatches : g[1] = h[1] /\ g[2] # h[2]
    /\ Len(run.ratings) = 1
    /\ Len(run.ratingshows) = 2

\* Position of a table in the sink log (0 when it was not written).
WrittenAt(tbl) ==
    IF \E i \in DOMAIN sink_log : sink_log[i] = tbl
    THEN CHOOSE i \in DOMAIN sink_log : sink_log[i] = tbl
    ELSE 0

\* Table dependencies: <<parent, child>>.
ParentOf ==
    {<<"cities", "cinemas">>, <<"shows", "showtimes">>,
     <<"cinemas", "showtimes">>, <<"shows", "ratingshows">>,
     <<"ratings", "ratingshows">>}

\* C18: a run that has ended without a failed fetch and without a failed
\* write has invoked the sink once per table, in the order cities, cinemas,
\* shows, posters, genres, showtimes, ratings, ratingshows.
C18_AllTablesWritten ==
    (run.pc = "none" /\ run.result \notin {"none", "err"})
        => sink_log = <<"cities", "cinemas", "shows", "posters", "genres",
                        "showtimes", "ratings", "ratingshows">>

\* C18, the order of the writes: the sink is invoked at most once per table,
\* in the order cities, cinemas, shows, posters, genres, showtimes, ratings,
\* ratingshows; a run succeeds only after all eight writes; a parent table is
\* written before its dependents; and after a failed write nothing more is
\* written.
C18_TableOrder ==
    /\ [](LET order == <<"cities", "cinemas", "shows", "posters", "genres",
                         "showtimes", "ratings", "ratingshows">> IN
          /\ Len(sink_log) <= Len(order)
          /\ \A i \in DOMAIN sink_log : sink_log[i] = order[i]
          /\ run.result = "ok" => sink_log = order
          /\ \A d \in ParentOf :
                WrittenAt(d[2]) # 0 =>
                    (WrittenAt(d[1]) # 0 /\ WrittenAt(d[1]) < WrittenAt(d[2])))
    /\ [][(run.pc = "none" /\ run.result = "err" /\ run_id' = run_id)
             => sink_log' = sink_log]_vars

\* C18 witness: a run whose fetches all succeeded wrote the eight tables.
C18_Witness ==
    /\ run.result = "ok"
    /\ Len(sink_log) = 8
    /\ run.ns >= 1
    /\ run.nc >= 1

\* C19: a rating search that answers with an empty results list fails the
\* rating task and the run; one that answers with a container of zero hits
\* does not fail the task and leaves the show without rating and without
\* association row.
C19_EmptyResults ==
    /\ \A t \in tasks :
          (t.run = run_id /\ t.kind = "rating" /\ t.o = "empty")
              => (run.fatal /\ run.result # "ok" /\ run.pc # "sink"
                  /\ sink_log = <<>>)
    /\ \A t \in tasks :
          (t.kind = "rating" /\ t.st = "done") =>
            /\ t.o = "empty" => t.res = "err"
            /\ t.o = "nohit" => (t.res = "ok" /\ t.val = <<>>)
    /\ run.pc = "sink" =>
          /\ Range(run.ratingshows) = GotMatches
          /\ {r[1] : r \in Range(run.ratings)} = {g[1] : g \in GotMatches}

\* C19 witness: the search of a show had a container of zero hits, its
\* rating task returned no match, and the run goes on joining.
C19_Witness ==
    /\ run.pc = "join_ratings"
    /\ ~run.fatal
    /\ \E t \in tasks :
          /\ t.kind = "rating" /\ t.st = "done" /\ t.o = "nohit"
          /\ t.res = "ok" /\ t.val = <<>>

\* The hit best_rt_hit returned, as its index in the input list.
Chosen == matcher.best[1].hit.vanity

\* The score of hit i of the call.
ScoreAt(i) == score_of(matcher.hits[i], matcher.title, matcher.year)

\* C14: best_rt_hit returns none exactly for an empty list; otherwise it
\* returns a hit of the list with its score, no other hit scores lower and
\* every earlier hit scores strictly higher.
C14_BestHit ==
    matcher.pc = "ret" =>
        /\ matcher.best = <<>> <=> matcher.hits = <<>>
        /\ matcher.hits # <<>> =>
              /\ Len(matcher.best) = 1
              /\ Chosen \in DOMAIN matcher.hits
              /\ matcher.best[1].hit = matcher.hits[Chosen]
              /\ matcher.best[1].score = ScoreAt(Chosen)
              /\ \A j \in DOMAIN matcher.hits :
                    /\ ScoreAt(j) >= ScoreAt(Chosen)
                    /\ j < Chosen => ScoreAt(j) > ScoreAt(Chosen)

\* C14 witness: two hits tie for the lowest score and the first is returned.
C14_Witness ==
    /\ matcher.pc = "ret"
    /\ Len(matcher.hits) = 2
    /\ ScoreAt(1) = ScoreAt(2)
    /\ matcher.hits[1] # [matcher.hits[2] EXCEPT !.vanity = 1]
    /\ Chosen = 1

\* Two hits titled like the target, of which hit i has the target year.
YearMatchAt(i) ==
    /\ matcher.pc = "ret"
    /\ Len(matcher.hits) = 2
    /\ matcher.year # NoYear
    /\ \A j \in 1..2 : matcher.hits[j].title = matcher.title
    /\ matcher.hits[i].release_year = matcher.year
    /\ matcher.hits[3 - i].release_year # matcher.year

\* C15 as stated: the hit whose year equals the target year scores strictly
\* lower than the other hit, whose year differs or is absent, and is chosen.
C15_YearMatchWins ==
    \A i \in 1..2 :
        YearMatchAt(i) => (ScoreAt(i) < ScoreAt(3 - i) /\ Chosen = i)

\* C15 amended: when the other hit's year is known and differs, the hit
\* whose year equals the target year scores strictly lower than the other
\* and is chosen, in either input order.
C15_KnownYearMatchWins ==
    \A i \in 1..2 :
        (YearMatchAt(i) /\ matcher.hits[3 - i].release_year # NoYear)
            => (ScoreAt(i) < ScoreAt(3 - i) /\ Chosen = i)

\* C15 witness: the year-matching hit comes second, the first hit has
\* another known year, and the second is chosen.
C15_Witness ==
    /\ YearMatchAt(2)
    /\ matcher.hits[1].release_year # NoYear
    /\ Chosen = 2

\* Calls that were issued and have all returned a body.
AllCompleted == \A t \in callers : pc[t] = "done" /\ result[t] = "ok"

\* The least k with k * d >= x.
CeilDiv(x, d) == (x + d - 1) \div d

\* C16 as stated: with quota n per second, m > n concurrent calls are not
\* all completed before ceil(m/n) - 1 seconds have passed (a second is n
\* cell intervals).
C16_WholeSeconds ==
    (limiter /\ Cardinality(callers) > bucket.n /\ AllCompleted)
        => bucket.time >= bucket.n * (CeilDiv(Cardinality(callers), bucket.n) - 1)

\* C16 amended: they are not all completed before (m - n)/n seconds have
\* passed, that is m - n cell intervals.
C16_BurstThenRate ==
    (limiter /\ Cardinality(callers) > bucket.n /\ AllCompleted)
        => bucket.time >= Cardinality(callers) - bucket.n

\* C16 witness: three calls through a client of quota 2 have all completed
\* after one cell interval, half a second.
C16_Witness ==
    /\ limiter
    /\ bucket.n = 2
    /\ Cardinality(callers) = 3
    /\ AllCompleted
    /\ bucket.time = 1

\* C17: a task goes to the cooldown sleep only from holding the permit and
\* only on a retry, and comes to the limiter wait (or, without a limiter, to
\* the send) only in the step in which it gives the permit back or hands it
\* to a waiter; with a limiter a request is sent only by a task that waited
\* at the limiter and took a cell in that step, and a cell is taken only by
\* such a task, which holds no permit; without a limiter a request is sent
\* only by a task that has released its permit.
C17_AttemptOrder ==
    [][\A t \in Callers :
         /\ (pc[t] # "sleeping" /\ pc'[t] = "sleeping")
               => (pc[t] = "holding" /\ retries[t] > 0)
         /\ (pc[t] \notin {"limiter", "ready"}
                /\ pc'[t] \in {"limiter", "ready"})
               => /\ limiter <=> pc'[t] = "limiter"
                  /\ PassesPermit(t)
                  /\ \/ sem = 0 /\ sem' = 1
                     \/ \E u \in Callers \ {t} :
                            pc[u] = "acquire" /\ pc'[u] = "holding"
         /\ Sends(t) =>
               IF limiter
               THEN /\ pc[t] = "limiter"
                    /\ t \notin Holders
                    /\ bucket.cells > 0
                    /\ bucket'.cells = bucket.cells - 1
               ELSE pc[t] = "ready" /\ t \notin Holders
         /\ bucket'.cells < bucket.cells
               => \E u \in Callers : pc[u] = "limiter" /\ Sends(u)]_vars

\* C17 witness: a retry has slept, released the permit, taken a cell and
\* sent its second request.
C17_Witness ==
    \E t \in Callers :
        /\ limiter
        /\ pc[t] = "sending"
        /\ retries[t] = 1
        /\ attempts[t] = 2

\* C20: the u8 retry counter is never incremented past 255: a call never
\* panics, never makes more than max_retries + 1 attempts, and its counter
\* never goes back to a smaller value.
C20_NoOverflow ==
    /\ [](\A t \in callers :
            /\ result[t] # "panic"
            /\ attempts[t] <= max_retries + 1)
    /\ [][\A t \in callers :
            (pc[t] # "idle" /\ pc'[t] # "idle") => retries'[t] >= retries[t]]_vars

\* The latest run has returned an error to its caller.
RunReturnedErr == run.pc = "none" /\ run.result = "err"

\* Task t is inside its get_json call: it waits for or holds the client's
\* permit, sleeps in a cooldown, waits at the limiter or has a request out.
InFetch(t) == t.st = "fetch"

\* C21: once run has returned an error, no task spawned by that run is
\* still inside a fetch.
C21_NoTaskOutlivesRun ==
    RunReturnedErr => \A t \in tasks : t.run = run_id => ~InFetch(t)

\* The call of task t has returned a body or an error.
Returned(t) == pc[t] = "done" /\ result[t] \in {"ok", "err"}

\* C22: every call that has entered get_or_post eventually returns a body
\* or an error.
C22_EveryCallReturns ==
    \A t \in Callers : (pc[t] # "idle") ~> Returned(t)

\* C22 restricted to retry budgets below the top of the u8 range.
C22_BelowU8Max ==
    \A t \in Callers :
        (pc[t] # "idle" /\ max_retries < U8Max) ~> Returned(t)

====
